---- MODULE Spec2Model ----
(***************************************************************************)
(* A model of server.js: the conversation store kept in db.json, the five  *)
(* synchronous REST handlers over it, and the asynchronous message handler *)
(* that relays a turn to the completion service.                           *)
(*                                                                         *)
(* JavaScript strings that the code slices or measures (messages, titles)  *)
(* are sequences of one-character strings; ids, timestamps and error texts *)
(* are only compared, and are TLA+ strings.  A synchronous handler is one  *)
(* atomic action (Node runs it to completion); the message handler is two: *)
(* the part before `await fetch` and the part after the reply arrives.     *)
(***************************************************************************)
EXTENDS Integers, Sequences, FiniteSets, TLC

\* ------------------------------------------------------------------ bounds
MaxClock == 2      \* the clock runs over 1..MaxClock
MaxRequests == 3   \* create requests served plus requests relayed to the completion service

\* --------------------------------------------------------------- constants
TitleLimit == 30   \* message.slice(0, 30), message.length > 30

NewChat == <<"N", "e", "w", " ", "C", "h", "a", "t">>
Ellipsis == <<".", ".", ".">>

\* JavaScript's undefined, as a value no string of characters equals.
Undefined == <<"undefined">>

RECURSIVE Repeat(_, _)
Repeat(ch, n) == IF n = 0 THEN <<>> ELSE <<ch>> \o Repeat(ch, n - 1)

\* Message texts a client posts: exactly TitleLimit units, and one more.
TextAtLimit == Repeat("a", TitleLimit)
TextOverLimit == Repeat("b", TitleLimit) \o <<"c">>
Texts == {TextAtLimit, TextOverLimit}
\* req.body.message: a text, the empty string, or absent.
MessageInputs == Texts \cup {<<>>, Undefined}

Renamed == <<"R">>
\* req.body.title: a title, the empty string, or absent.
TitleInputs == {Renamed, <<>>, Undefined}

ReplyText == <<"o", "k">>

Clock == 1..MaxClock

\* dbFile   db.json: [kind, doc], see loadDb
\* now      the system clock, in milliseconds
\* apiKey   whether process.env.ANTHROPIC_API_KEY is set
\* pending  the message handlers suspended at `await fetch`, oldest first, each
\*          with the db it loaded (and has appended the user message to), the
\*          messages it sent to the completion service, and its number among
\*          the requests sent there (turn), which tells one request from another
\* out      the last response sent: [op, status] and the body where there is one
\* creates  create requests served so far
\* relays   requests sent to the completion service so far
VARIABLES dbFile, now, apiKey, pending, out, creates, relays

vars == <<dbFile, now, apiKey, pending, out, creates, relays>>

\* ------------------------------------------------------------ conversions
\* Date.now().toString()
DateNowToString(t) == ToString(t)

\* new Date().toISOString()
ToISOString(t) == "T" \o ToString(t)

\* new Date(isoString), as the number Date subtraction coerces it to
NewDate(s) == CHOOSE t \in 0..(MaxClock + 1) : ToISOString(t) = s

\* Reading m.content: a property the object does not have reads as undefined.
Content(m) == IF "content" \in DOMAIN m THEN m.content ELSE Undefined

\* JSON.stringify of a message: a property whose value is undefined is left out.
StringifyMessage(m) ==
    IF Content(m) = Undefined THEN [role |-> m.role] ELSE m

StringifyConversation(c) ==
    [c EXCEPT !.messages = [i \in 1..Len(c.messages) |-> StringifyMessage(c.messages[i])]]

\* JSON.stringify(data, null, 2)
JSONStringify(data) ==
    [conversations |-> [i \in 1..Len(data.conversations) |->
                           StringifyConversation(data.conversations[i])]]

\* JSON.parse of a document JSON.stringify wrote
JSONParse(doc) == doc

\* ------------------------------------------------------------ persistence
\* db.json is absent, or holds a document JSON.parse accepts ("json"), or one
\* it rejects ("corrupt"); doc is the collection written there last.
EmptyDb == [conversations |-> <<>>]

\* A load without the try/catch: whatever the file holds is handed on.
loadDbUnchecked(file) ==
    IF file.kind = "absent" THEN EmptyDb ELSE JSONParse(file.doc)

loadDb(file) ==
    IF file.kind = "absent" THEN EmptyDb
    ELSE IF file.kind = "corrupt" THEN EmptyDb
    ELSE JSONParse(file.doc)

\* fs.writeFileSync(DB_FILE, JSON.stringify(data, null, 2))
saveDb(data) == [kind |-> "json", doc |-> JSONStringify(data)]

\* ---------------------------------------------------------------- helpers
\* Array.prototype.find(c => c.id === id): the index of the first match, 0 for none
FindIndex(convs, id) ==
    IF \E i \in 1..Len(convs) : convs[i].id = id
    THEN CHOOSE i \in 1..Len(convs) :
            /\ convs[i].id = id
            /\ \A j \in 1..(i - 1) : convs[j].id # id
    ELSE 0

\* Array.prototype.filter(c => c.id !== id)
FilterOut(convs, id) == SelectSeq(convs, LAMBDA c : c.id # id)

\* !value for the request fields the handlers test
Falsy(v) == v = Undefined \/ v = <<>>

NoOutput == [op |-> "none"]

ReqIds == {DateNowToString(t) : t \in Clock} \cup {"unknown"}

\* --------------------------------------------------------- list summaries
Summary(c) == [id |-> c.id, title |-> c.title, updatedAt |-> c.updatedAt]

\* The comparator with its operands swapped: oldest first.
CompareUpdatedAscending(a, b) == NewDate(a.updatedAt) - NewDate(b.updatedAt)

\* (a, b) => new Date(b.updatedAt) - new Date(a.updatedAt)
CompareUpdated(a, b) == NewDate(b.updatedAt) - NewDate(a.updatedAt)

\* One step of a stable sort: x goes behind every element that does not
\* compare greater than it.
RECURSIVE SortInsert(_, _)
SortInsert(sorted, x) ==
    IF sorted = <<>> THEN <<x>>
    ELSE IF CompareUpdated(sorted[Len(sorted)], x) > 0
         THEN Append(SortInsert(SubSeq(sorted, 1, Len(sorted) - 1), x), sorted[Len(sorted)])
         ELSE Append(sorted, x)

\* Array.prototype.sort with that comparator (stable since V8 7.0)
RECURSIVE SortByUpdated(_)
SortByUpdated(s) ==
    IF s = <<>> THEN <<>>
    ELSE SortInsert(SortByUpdated(SubSeq(s, 1, Len(s) - 1)), s[Len(s)])

Summaries(db) ==
    SortByUpdated([i \in 1..Len(db.conversations) |-> Summary(db.conversations[i])])

\* ------------------------------------------------------- title derivation
\* The ellipsis test off by one: >= where the code has >.
DeriveTitleOffByOne(message) ==
    SubSeq(message, 1, IF Len(message) < TitleLimit THEN Len(message) ELSE TitleLimit)
        \o (IF Len(message) >= TitleLimit THEN Ellipsis ELSE <<>>)

\* message.slice(0, 30) + (message.length > 30 ? '...' : '')
DeriveTitle(message) ==
    SubSeq(message, 1, IF Len(message) < TitleLimit THEN Len(message) ELSE TitleLimit)
        \o (IF Len(message) > TitleLimit THEN Ellipsis ELSE <<>>)

\* conv.messages.push(userMsg), then the title of a first message
AppendUser(conv, message) ==
    LET pushed == [conv EXCEPT !.messages = Append(@, [role |-> "user", content |-> message])]
    IN  IF Len(pushed.messages) = 1 /\ pushed.title = NewChat
        THEN [pushed EXCEPT !.title = DeriveTitle(message)]
        ELSE pushed

\* unshift where the code has push: the reply goes in front.
AppendAssistantFirst(conv, text, t) ==
    [conv EXCEPT !.messages = <<[role |-> "assistant", content |-> text]>> \o @,
                 !.updatedAt = ToISOString(t)]

\* conv.messages.push({role: 'assistant', ...}); conv.updatedAt = new Date().toISOString()
AppendAssistant(conv, text, t) ==
    [conv EXCEPT !.messages = Append(@, [role |-> "assistant", content |-> text]),
                 !.updatedAt = ToISOString(t)]

\* ------------------------------------------------- the completion service
\* What comes back from fetch: it rejects (no response at all), or a response
\* arrives whose body is not JSON, or a JSON body with a non-success status
\* (with or without error.message), or a success status with a body that has
\* no content, an empty content array, a first block without text, or text.
Replies ==
    { [kind |-> "rejected"],
      [kind |-> "notJson"],
      [kind |-> "status", message |-> "overloaded"],
      [kind |-> "status", message |-> "none"],
      [kind |-> "noContent"],
      [kind |-> "emptyContent"],
      [kind |-> "noText"],
      [kind |-> "text"] }

\* The error the try block throws for a reply, "none" when it throws nothing.
ThrownFor(reply) ==
    CASE reply.kind = "rejected" -> "fetch failed"
      [] reply.kind = "notJson" -> "invalid json response body"
      [] reply.kind = "status" ->
            IF reply.message # "none" THEN reply.message ELSE "API Error"
      [] reply.kind = "noContent" -> "Cannot read properties of undefined (reading '0')"
      [] reply.kind = "emptyContent" -> "Cannot read properties of undefined (reading 'text')"
      [] OTHER -> "none"

\* data.content[0].text
AssistantText(reply) == IF reply.kind = "text" THEN ReplyText ELSE Undefined

\* --------------------------------------------------------------- the state
Init ==
    /\ dbFile \in {[kind |-> "absent", doc |-> EmptyDb], [kind |-> "corrupt", doc |-> EmptyDb]}
    /\ now = 1
    /\ apiKey \in BOOLEAN
    /\ pending = <<>>
    /\ out = NoOutput
    /\ creates = 0
    /\ relays = 0

\* The clock advances.
Tick ==
    /\ now < MaxClock
    /\ now' = now + 1
    /\ UNCHANGED <<dbFile, apiKey, pending, out, creates, relays>>

\* app.get('/api/conversations')
ListConversations ==
    LET db == loadDb(dbFile)
    IN  /\ out' = [op |-> "list", status |-> 200, body |-> Summaries(db)]
        /\ UNCHANGED <<dbFile, now, apiKey, pending, creates, relays>>

\* app.get('/api/conversations/:id')
GetConversation(id) ==
    LET db == loadDb(dbFile)
        i == FindIndex(db.conversations, id)
    IN  /\ out' = IF i = 0
                  THEN [op |-> "get", status |-> 404]
                  ELSE [op |-> "get", status |-> 200, body |-> db.conversations[i]]
        /\ UNCHANGED <<dbFile, now, apiKey, pending, creates, relays>>

\* app.post('/api/conversations'): the clock is read three times and may
\* advance between the reads.
CreateConversation(tCreated, tUpdated) ==
    LET db == loadDb(dbFile)
        newConv == [id |-> DateNowToString(now),
                    title |-> NewChat,
                    messages |-> <<>>,
                    createdAt |-> ToISOString(tCreated),
                    updatedAt |-> ToISOString(tUpdated)]
        pushed == [db EXCEPT !.conversations = Append(@, newConv)]
    IN  /\ creates + relays < MaxRequests
        /\ creates' = creates + 1
        /\ now <= tCreated /\ tCreated <= tUpdated /\ tUpdated <= MaxClock
        /\ tUpdated <= now + 1
        /\ dbFile' = saveDb(pushed)
        /\ now' = tUpdated
        /\ out' = [op |-> "create", status |-> 200, body |-> newConv]
        /\ UNCHANGED <<apiKey, pending, relays>>

\* The rename handler without its `if (req.body.title)`: it refreshes
\* updatedAt and saves whatever the title.
UpdateConversationAlways(id, title) ==
    LET db == loadDb(dbFile)
        i == FindIndex(db.conversations, id)
        renamed == [db EXCEPT !.conversations[i].title = IF Falsy(title) THEN @ ELSE title,
                              !.conversations[i].updatedAt = ToISOString(now)]
    IN  IF i = 0
        THEN /\ out' = [op |-> "rename", status |-> 404]
             /\ UNCHANGED <<dbFile, now, apiKey, pending, creates, relays>>
        ELSE /\ dbFile' = saveDb(renamed)
             /\ out' = [op |-> "rename", status |-> 200,
                        body |-> renamed.conversations[i]]
             /\ UNCHANGED <<now, apiKey, pending, creates, relays>>

\* app.put('/api/conversations/:id')
UpdateConversation(id, title) ==
    LET db == loadDb(dbFile)
        i == FindIndex(db.conversations, id)
        renamed == [db EXCEPT !.conversations[i].title = title,
                              !.conversations[i].updatedAt = ToISOString(now)]
    IN  IF i = 0
        THEN /\ out' = [op |-> "rename", status |-> 404]
             /\ UNCHANGED <<dbFile, now, apiKey, pending, creates, relays>>
        ELSE IF ~Falsy(title)
        THEN /\ dbFile' = saveDb(renamed)
             /\ out' = [op |-> "rename", status |-> 200,
                        body |-> renamed.conversations[i]]
             /\ UNCHANGED <<now, apiKey, pending, creates, relays>>
        ELSE /\ out' = [op |-> "rename", status |-> 200,
                        body |-> db.conversations[i]]
             /\ UNCHANGED <<dbFile, now, apiKey, pending, creates, relays>>

\* app.delete('/api/conversations/:id')
DeleteConversation(id) ==
    LET db == loadDb(dbFile)
        initialLength == Len(db.conversations)
        filtered == [db EXCEPT !.conversations = FilterOut(@, id)]
    IN  IF Len(filtered.conversations) = initialLength
        THEN /\ out' = [op |-> "delete", status |-> 404]
             /\ UNCHANGED <<dbFile, now, apiKey, pending, creates, relays>>
        ELSE /\ dbFile' = saveDb(filtered)
             /\ out' = [op |-> "delete", status |-> 200]
             /\ UNCHANGED <<now, apiKey, pending, creates, relays>>

\* The message handler with the lookup moved before the validation.
PostMessageLookupFirst(id, message) ==
    LET db == loadDb(dbFile)
        i == FindIndex(db.conversations, id)
        appended == [db EXCEPT !.conversations[i] = AppendUser(@, message)]
    IN  IF i = 0
        THEN /\ out' = [op |-> "message", status |-> 404]
             /\ UNCHANGED <<dbFile, now, apiKey, pending, creates, relays>>
        ELSE IF Falsy(message)
        THEN /\ out' = [op |-> "message", status |-> 400]
             /\ UNCHANGED <<dbFile, now, apiKey, pending, creates, relays>>
        ELSE IF ~apiKey
        THEN /\ out' = [op |-> "message", status |-> 500]
             /\ UNCHANGED <<dbFile, now, apiKey, pending, creates, relays>>
        ELSE /\ creates + relays < MaxRequests
             /\ relays' = relays + 1
             /\ pending' = Append(pending, [turn |-> relays + 1, id |-> id, message |-> message,
                                            db |-> appended,
                                            sent |-> appended.conversations[i].messages])
             /\ UNCHANGED <<dbFile, now, apiKey, out, creates>>

\* The handler if it built the request body before pushing the user message.
PostMessageSendsLoaded(id, message) ==
    LET db == loadDb(dbFile)
        i == FindIndex(db.conversations, id)
        appended == [db EXCEPT !.conversations[i] = AppendUser(@, message)]
    IN  IF Falsy(message)
        THEN /\ out' = [op |-> "message", status |-> 400]
             /\ UNCHANGED <<dbFile, now, apiKey, pending, creates, relays>>
        ELSE IF i = 0
        THEN /\ out' = [op |-> "message", status |-> 404]
             /\ UNCHANGED <<dbFile, now, apiKey, pending, creates, relays>>
        ELSE IF ~apiKey
        THEN /\ out' = [op |-> "message", status |-> 500]
             /\ UNCHANGED <<dbFile, now, apiKey, pending, creates, relays>>
        ELSE /\ creates + relays < MaxRequests
             /\ relays' = relays + 1
             /\ pending' = Append(pending, [turn |-> relays + 1, id |-> id, message |-> message,
                                            db |-> appended,
                                            sent |-> db.conversations[i].messages])
             /\ UNCHANGED <<dbFile, now, apiKey, out, creates>>

\* The handler if it saved the appended user message before calling the
\* completion service.
PostMessageSavesUser(id, message) ==
    LET db == loadDb(dbFile)
        i == FindIndex(db.conversations, id)
        appended == [db EXCEPT !.conversations[i] = AppendUser(@, message)]
    IN  IF Falsy(message)
        THEN /\ out' = [op |-> "message", status |-> 400]
             /\ UNCHANGED <<dbFile, now, apiKey, pending, creates, relays>>
        ELSE IF i = 0
        THEN /\ out' = [op |-> "message", status |-> 404]
             /\ UNCHANGED <<dbFile, now, apiKey, pending, creates, relays>>
        ELSE IF ~apiKey
        THEN /\ out' = [op |-> "message", status |-> 500]
             /\ dbFile' = saveDb(appended)
             /\ UNCHANGED <<now, apiKey, pending, creates, relays>>
        ELSE /\ creates + relays < MaxRequests
             /\ relays' = relays + 1
             /\ dbFile' = saveDb(appended)
             /\ pending' = Append(pending, [turn |-> relays + 1, id |-> id, message |-> message,
                                            db |-> appended,
                                            sent |-> appended.conversations[i].messages])
             /\ UNCHANGED <<now, apiKey, out, creates>>

\* app.post('/api/conversations/:id/message'), up to `await fetch`
PostMessage(id, message) ==
    LET db == loadDb(dbFile)
        i == FindIndex(db.conversations, id)
        appended == [db EXCEPT !.conversations[i] = AppendUser(@, message)]
    IN  IF Falsy(message)
        THEN /\ out' = [op |-> "message", status |-> 400]
             /\ UNCHANGED <<dbFile, now, apiKey, pending, creates, relays>>
        ELSE IF i = 0
        THEN /\ out' = [op |-> "message", status |-> 404]
             /\ UNCHANGED <<dbFile, now, apiKey, pending, creates, relays>>
        ELSE IF ~apiKey
        THEN /\ out' = [op |-> "message", status |-> 500]
             /\ UNCHANGED <<dbFile, now, apiKey, pending, creates, relays>>
        ELSE /\ creates + relays < MaxRequests
             /\ relays' = relays + 1
             /\ pending' = Append(pending, [turn |-> relays + 1, id |-> id, message |-> message,
                                            db |-> appended,
                                            sent |-> appended.conversations[i].messages])
             /\ UNCHANGED <<dbFile, now, apiKey, out, creates>>

Without(s, k) == [j \in 1..(Len(s) - 1) |-> IF j < k THEN s[j] ELSE s[j + 1]]

\* The handler if it loaded the file again before the save and appended the
\* pair to what it finds there, instead of saving what it loaded at the start.
CompletionReturnsReload(k, reply) ==
    LET req == pending[k]
        db == loadDb(dbFile)
        i == FindIndex(db.conversations, req.id)
        assistantText == AssistantText(reply)
        answered == [db EXCEPT !.conversations[i] =
                        AppendAssistant(AppendUser(@, req.message), assistantText, now)]
    IN  /\ pending' = Without(pending, k)
        /\ IF ThrownFor(reply) # "none" \/ i = 0
           THEN /\ out' = [op |-> "message", status |-> 500]
                /\ UNCHANGED dbFile
           ELSE /\ dbFile' = saveDb(answered)
                /\ out' = [op |-> "message", status |-> 200,
                           body |-> StringifyMessage(
                                      [role |-> "assistant", content |-> assistantText])
                                    @@ [conversationId |-> req.id,
                                        title |-> answered.conversations[i].title]]
        /\ UNCHANGED <<now, apiKey, creates, relays>>

\* The handler if its catch block saved what it holds (the user message
\* without a reply) before answering 500.
CompletionReturnsSavesOnFailure(k, reply) ==
    LET req == pending[k]
        i == FindIndex(req.db.conversations, req.id)
        assistantText == AssistantText(reply)
        answered == [req.db EXCEPT !.conversations[i] = AppendAssistant(@, assistantText, now)]
        conv == answered.conversations[i]
    IN  /\ pending' = Without(pending, k)
        /\ IF ThrownFor(reply) # "none"
           THEN /\ out' = [op |-> "message", status |-> 500]
                /\ dbFile' = saveDb(req.db)
           ELSE /\ dbFile' = saveDb(answered)
                /\ out' = [op |-> "message", status |-> 200,
                           body |-> StringifyMessage(
                                      [role |-> "assistant", content |-> assistantText])
                                    @@ [conversationId |-> conv.id, title |-> conv.title]]
        /\ UNCHANGED <<now, apiKey, creates, relays>>

\* The handler with a catch block that logs the error and sends nothing.
CompletionReturnsSilentCatch(k, reply) ==
    LET req == pending[k]
        i == FindIndex(req.db.conversations, req.id)
        assistantText == AssistantText(reply)
        answered == [req.db EXCEPT !.conversations[i] = AppendAssistant(@, assistantText, now)]
        conv == answered.conversations[i]
    IN  /\ pending' = Without(pending, k)
        /\ IF ThrownFor(reply) # "none"
           THEN UNCHANGED <<out, dbFile>>
           ELSE /\ dbFile' = saveDb(answered)
                /\ out' = [op |-> "message", status |-> 200,
                           body |-> StringifyMessage(
                                      [role |-> "assistant", content |-> assistantText])
                                    @@ [conversationId |-> conv.id, title |-> conv.title]]
        /\ UNCHANGED <<now, apiKey, creates, relays>>

\* The same handler from the reply of the completion service on.
CompletionReturns(k, reply) ==
    LET req == pending[k]
        i == FindIndex(req.db.conversations, req.id)
        assistantText == AssistantText(reply)
        answered == [req.db EXCEPT !.conversations[i] = AppendAssistant(@, assistantText, now)]
        conv == answered.conversations[i]
    IN  /\ pending' = Without(pending, k)
        /\ IF ThrownFor(reply) # "none"
           THEN /\ out' = [op |-> "message", status |-> 500]
                /\ UNCHANGED dbFile
           ELSE /\ dbFile' = saveDb(answered)
                /\ out' = [op |-> "message", status |-> 200,
                           body |-> StringifyMessage(
                                      [role |-> "assistant", content |-> assistantText])
                                    @@ [conversationId |-> conv.id, title |-> conv.title]]
        /\ UNCHANGED <<now, apiKey, creates, relays>>

Next ==
    \/ Tick
    \/ ListConversations
    \/ \E id \in ReqIds : GetConversation(id)
    \/ \E tc, tu \in Clock : CreateConversation(tc, tu)
    \/ \E id \in ReqIds, title \in TitleInputs : UpdateConversation(id, title)
    \/ \E id \in ReqIds : DeleteConversation(id)
    \/ \E id \in ReqIds, message \in MessageInputs : PostMessage(id, message)
    \/ \E k \in 1..Len(pending), reply \in Replies : CompletionReturns(k, reply)

Spec == Init /\ [][Next]_vars

\* The server when the completion service answers every request it is sent,
\* with whatever reply.
SpecAnswered ==
    /\ Spec
    /\ \A n \in 1..MaxRequests :
          WF_vars(\E k \in 1..Len(pending), reply \in Replies :
                     pending[k].turn = n /\ CompletionReturns(k, reply))

\* The same server when no client ever renames.
NextNoRename ==
    \/ Tick
    \/ ListConversations
    \/ \E id \in ReqIds : GetConversation(id)
    \/ \E tc, tu \in Clock : CreateConversation(tc, tu)
    \/ \E id \in ReqIds : DeleteConversation(id)
    \/ \E id \in ReqIds, message \in MessageInputs : PostMessage(id, message)
    \/ \E k \in 1..Len(pending), reply \in Replies : CompletionReturns(k, reply)

SpecNoRename == Init /\ [][NextNoRename]_vars

\* db.json is removed behind the server's back: existsSync turns false.
FileRemoved ==
    /\ dbFile.kind # "absent"
    /\ dbFile' = [kind |-> "absent", doc |-> EmptyDb]
    /\ UNCHANGED <<now, apiKey, pending, out, creates, relays>>

\* db.json is damaged behind the server's back: JSON.parse will throw on what
\* is left of the document.
FileCorrupted ==
    /\ dbFile.kind = "json"
    /\ dbFile' = [dbFile EXCEPT !.kind = "corrupt"]
    /\ UNCHANGED <<now, apiKey, pending, out, creates, relays>>

NextDamage == Next \/ FileRemoved \/ FileCorrupted

\* The server over a file that can be lost or damaged at any time.
SpecDamage == Init /\ [][NextDamage]_vars

\* ------------------------------------------------------ reading the store
\* The conversations a load of the file returns now.
Stored == loadDb(dbFile).conversations

\* What get(id) finds in a collection: the first conversation with that id.
Found(convs, id) == convs[FindIndex(convs, id)]

Has(convs, id) == FindIndex(convs, id) # 0

\* ---------------------------------------------------------- failing saves
\* How fs.writeFileSync can throw: at the open (permission, read-only volume),
\* before the file is touched, or at the write after the open has truncated
\* it (disk full, I/O error), which leaves an empty or cut-off document.
WriteFailures == {"open", "write"}

\* db.json after a writeFileSync that threw.
FailedWrite(file, how) ==
    IF how = "open" THEN file ELSE [kind |-> "corrupt", doc |-> EmptyDb]

\* app.post('/api/conversations') when saveDb throws: the exception leaves the
\* handler and Express answers 500.
CreateConversationSaveFails(tCreated, tUpdated, how) ==
    /\ now <= tCreated /\ tCreated <= tUpdated /\ tUpdated <= MaxClock
    /\ tUpdated <= now + 1
    /\ dbFile' = FailedWrite(dbFile, how)
    /\ now' = tUpdated
    /\ out' = [op |-> "create", status |-> 500]
    /\ UNCHANGED <<apiKey, pending, creates, relays>>

\* app.put('/api/conversations/:id') when it reaches saveDb and saveDb throws.
UpdateConversationSaveFails(id, title, how) ==
    /\ Has(loadDb(dbFile).conversations, id)
    /\ ~Falsy(title)
    /\ dbFile' = FailedWrite(dbFile, how)
    /\ out' = [op |-> "rename", status |-> 500]
    /\ UNCHANGED <<now, apiKey, pending, creates, relays>>

\* app.delete('/api/conversations/:id') when it reaches saveDb and saveDb throws.
DeleteConversationSaveFails(id, how) ==
    /\ Has(loadDb(dbFile).conversations, id)
    /\ dbFile' = FailedWrite(dbFile, how)
    /\ out' = [op |-> "delete", status |-> 500]
    /\ UNCHANGED <<now, apiKey, pending, creates, relays>>

\* The message handler from the reply on, when the reply is usable and saveDb
\* throws: the catch answers 500.
CompletionReturnsSaveFails(k, reply, how) ==
    /\ ThrownFor(reply) = "none"
    /\ pending' = Without(pending, k)
    /\ dbFile' = FailedWrite(dbFile, how)
    /\ out' = [op |-> "message", status |-> 500]
    /\ UNCHANGED <<now, apiKey, creates, relays>>

NextSaveFails ==
    \/ Next
    \/ \E tc, tu \in Clock, how \in WriteFailures : CreateConversationSaveFails(tc, tu, how)
    \/ \E id \in ReqIds, title \in TitleInputs, how \in WriteFailures :
          UpdateConversationSaveFails(id, title, how)
    \/ \E id \in ReqIds, how \in WriteFailures : DeleteConversationSaveFails(id, how)
    \/ \E k \in 1..Len(pending), reply \in Replies, how \in WriteFailures :
          CompletionReturnsSaveFails(k, reply, how)

\* The server over a volume whose writes can fail.
SpecSaveFails == Init /\ [][NextSaveFails]_vars

\* ------------------------------------------------------------------ claims

\* The causes C1 lists: no response, a non-success status, a malformed body.
FailureReplies == {r \in Replies : r.kind # "text"}

\* C1: a message request that fails at or after the completion step (no
\* credential, transport failure, non-success status, malformed body) leaves
\* the file as it was and answers 500, never a success payload.
C1_TurnFailureNonPersistence ==
    [][/\ \A id \in ReqIds, message \in Texts :
            (~apiKey /\ Has(Stored, id) /\ PostMessage(id, message))
                => (dbFile' = dbFile /\ out'.op = "message" /\ out'.status = 500)
       /\ \A k \in 1..Len(pending), reply \in FailureReplies :
            (pending' # pending /\ CompletionReturns(k, reply))
                => (dbFile' = dbFile /\ out'.op = "message" /\ out'.status = 500)]_vars

\* C2: no two conversations of the store share an id, whatever the clock
\* values the create requests observed.
C2_UniqueIds ==
    \A i, j \in 1..Len(Stored) : i # j => Stored[i].id # Stored[j].id

\* C3: a request that succeeds with completion text r on a conversation
\* whose stored messages were M when the handler loaded them stores exactly
\* M, the user message, the assistant message, and answers
\* {role, content: r, conversationId, title} with the stored title.
C3_SuccessAppendsPair ==
    [][/\ \A id \in ReqIds, message \in Texts :
            (relays' # relays /\ PostMessage(id, message))
                => LET req == pending'[Len(pending')]
                   IN  /\ req.id = id /\ req.message = message
                       /\ Found(req.db.conversations, id).messages
                            = Append(Found(Stored, id).messages,
                                     [role |-> "user", content |-> message])
       /\ \A k \in 1..Len(pending) :
            (pending' # pending /\ CompletionReturns(k, [kind |-> "text"]))
                => LET req == pending[k]
                       loaded == Found(req.db.conversations, req.id).messages
                       after == Found(Stored', req.id)
                   IN  /\ Has(Stored', req.id)
                       /\ after.messages
                            = Append(loaded, [role |-> "assistant", content |-> ReplyText])
                       /\ loaded[Len(loaded)] = [role |-> "user", content |-> req.message]
                       /\ out' = [op |-> "message", status |-> 200,
                                  body |-> [role |-> "assistant", content |-> ReplyText,
                                            conversationId |-> req.id,
                                            title |-> after.title]]]_vars

\* C3's case: a second turn has succeeded on a conversation that held one.
C3_Witness ==
    /\ out.op = "message" /\ out.status = 200
    /\ "content" \in DOMAIN out.body
    /\ Has(Stored, out.body.conversationId)
    /\ Len(Found(Stored, out.body.conversationId).messages) = 4

\* C4: delete of an id the store lacks changes nothing and answers 404; delete
\* of an id it holds removes exactly one conversation, keeps the others in
\* order, answers success, and the id is then not found.
C4_DeleteIsExact ==
    [][\A id \in ReqIds :
          (out'.op = "delete" /\ DeleteConversation(id)) =>
             IF ~Has(Stored, id)
             THEN dbFile' = dbFile /\ out' = [op |-> "delete", status |-> 404]
             ELSE /\ Len(Stored') = Len(Stored) - 1
                  /\ Stored' = FilterOut(Stored, id)
                  /\ out' = [op |-> "delete", status |-> 200]
                  /\ ~Has(Stored', id)]_vars

\* C5: once a turn has succeeded on a conversation and set its title, no
\* message request on that conversation changes the stored title, in any
\* interleaving of requests, when no client renames.
C5_TitleFiresOnce ==
    [][\A k \in 1..Len(pending), reply \in Replies :
          (/\ pending' # pending
           /\ Has(Stored, pending[k].id)
           /\ Found(Stored, pending[k].id).messages # <<>>
           /\ CompletionReturns(k, reply))
             => /\ Has(Stored', pending[k].id)
                /\ Found(Stored', pending[k].id).title = Found(Stored, pending[k].id).title]_vars

\* C6: a request on a conversation that it loads with no messages and the
\* title 'New Chat' gives it the text as title when the text has at most 30
\* units, and its first 30 units followed by '...' when it has more; on any
\* other conversation it keeps the title it loaded.  A successful request
\* stores that title and returns it.
C6_TitleDerivation ==
    [][/\ \A id \in ReqIds, message \in Texts :
            (relays' # relays /\ PostMessage(id, message))
                => LET before == Found(Stored, id)
                       held == Found(pending'[Len(pending')].db.conversations, id)
                   IN  held.title =
                          IF before.messages = <<>> /\ before.title = NewChat
                          THEN IF Len(message) <= TitleLimit
                               THEN message
                               ELSE SubSeq(message, 1, TitleLimit) \o Ellipsis
                          ELSE before.title
       /\ \A k \in 1..Len(pending), reply \in Replies :
            (pending' # pending /\ CompletionReturns(k, reply) /\ out'.status = 200)
                => LET req == pending[k]
                   IN  /\ Found(Stored', req.id).title
                            = Found(req.db.conversations, req.id).title
                       /\ out'.body.title = Found(Stored', req.id).title]_vars

\* C6's case: a first turn of exactly 30 units gave the title, without the
\* ellipsis, and a second turn of 31 units left it alone.
C6_Witness ==
    /\ out.op = "message" /\ out.status = 200
    /\ out.body.title = TextAtLimit
    /\ Has(Stored, out.body.conversationId)
    /\ LET conv == Found(Stored, out.body.conversationId)
       IN  /\ Len(conv.messages) = 4
           /\ conv.messages[1].content = TextAtLimit
           /\ conv.messages[3].content = TextOverLimit
           /\ conv.title = TextAtLimit

\* C7: rename of an unknown id answers 404 and saves nothing; with an empty
\* or absent title it leaves the file as it was and returns the conversation;
\* with a title it sets the title and updatedAt of that conversation, changes
\* nothing else, saves, and returns the conversation.
C7_Rename ==
    [][\A id \in ReqIds, title \in TitleInputs :
          (out'.op = "rename" /\ UpdateConversation(id, title)) =>
             LET i == FindIndex(Stored, id)
             IN  IF i = 0
                 THEN dbFile' = dbFile /\ out'.status = 404
                 ELSE IF title \in {<<>>, Undefined}
                 THEN /\ dbFile' = dbFile
                      /\ out' = [op |-> "rename", status |-> 200, body |-> Stored[i]]
                 ELSE /\ Len(Stored') = Len(Stored)
                      /\ \A j \in 1..Len(Stored) : j # i => Stored'[j] = Stored[j]
                      /\ Stored'[i].id = Stored[i].id
                      /\ Stored'[i].messages = Stored[i].messages
                      /\ Stored'[i].createdAt = Stored[i].createdAt
                      /\ Stored'[i].title = title
                      /\ Stored'[i].updatedAt = ToISOString(now)
                      /\ out' = [op |-> "rename", status |-> 200, body |-> Stored'[i]]]_vars

\* C7's case: a rename without a title has returned a conversation whose
\* updatedAt is older than the clock.
C7_Witness ==
    /\ out.op = "rename" /\ out.status = 200
    /\ out.body.title # Renamed
    /\ NewDate(out.body.updatedAt) < now
    /\ Has(Stored, out.body.id)
    /\ Found(Stored, out.body.id) = out.body

\* C8: a message request with an empty or absent text answers 400 whatever
\* the id; one with a text and an unknown id answers 404; either leaves the
\* file alone and sends nothing to the completion service.
C8_ValidationFirst ==
    [][/\ \A id \in ReqIds, message \in {<<>>, Undefined} :
            PostMessage(id, message)
                => /\ out' = [op |-> "message", status |-> 400]
                   /\ dbFile' = dbFile /\ pending' = pending /\ relays' = relays
       /\ \A id \in ReqIds, message \in Texts :
            (~Has(Stored, id) /\ PostMessage(id, message))
                => /\ out' = [op |-> "message", status |-> 404]
                   /\ dbFile' = dbFile /\ pending' = pending /\ relays' = relays]_vars

\* C8's case: 400 was answered while the store held no conversation at all,
\* so the id of that request was unknown.
C8_Witness ==
    /\ out = [op |-> "message", status |-> 400]
    /\ Stored = <<>>

\* body lists the summaries of convs, one each, newest first, equal
\* timestamps in the order of convs.
IsSortedSummaryOf(body, convs) ==
    /\ Len(body) = Len(convs)
    /\ \E p \in [1..Len(convs) -> 1..Len(convs)] :
          /\ \A k, l \in 1..Len(convs) : k # l => p[k] # p[l]
          /\ \A k \in 1..Len(convs) :
                body[k] = [id |-> convs[p[k]].id, title |-> convs[p[k]].title,
                           updatedAt |-> convs[p[k]].updatedAt]
          /\ \A k, l \in 1..Len(convs) :
                k < l => \/ NewDate(body[k].updatedAt) > NewDate(body[l].updatedAt)
                         \/ /\ NewDate(body[k].updatedAt) = NewDate(body[l].updatedAt)
                            /\ p[k] < p[l]

\* C9: list returns one {id, title, updatedAt} per stored conversation,
\* newest updatedAt first, equal ones in store order, and writes nothing.
C9_SummarySort ==
    [][(out'.op = "list" /\ ListConversations)
          => /\ dbFile' = dbFile
             /\ IsSortedSummaryOf(out'.body, Stored)]_vars

\* C9's case: a list has put the store's second conversation first.
C9_Witness ==
    /\ out.op = "list"
    /\ Len(out.body) = 2 /\ Len(Stored) = 2
    /\ out.body[1].id = Stored[2].id
    /\ out.body[1].id # Stored[1].id
    /\ NewDate(out.body[1].updatedAt) > NewDate(out.body[2].updatedAt)

\* C10: over an absent or unparsable file list returns [], get answers 404
\* and create leaves a file holding the new conversation alone; every save
\* leaves a parsable file holding the whole collection the handler computed.
C10_LoadFallback ==
    [][/\ dbFile.kind # "json" =>
            /\ (out'.op = "list" /\ ListConversations) => out'.body = <<>>
            /\ \A id \in ReqIds :
                  (out'.op = "get" /\ GetConversation(id)) => out'.status = 404
            /\ \A tc, tu \in Clock :
                  (creates' # creates /\ CreateConversation(tc, tu))
                      => dbFile'.kind = "json" /\ Stored' = <<out'.body>>
       /\ \A tc, tu \in Clock :
            (creates' # creates /\ CreateConversation(tc, tu))
                => dbFile'.kind = "json" /\ Stored' = Append(Stored, out'.body)
       /\ \A id \in ReqIds, title \in TitleInputs :
            (dbFile' # dbFile /\ UpdateConversation(id, title))
                => /\ dbFile'.kind = "json"
                   /\ Stored' = [Stored EXCEPT ![FindIndex(Stored, id)] = out'.body]
       /\ \A id \in ReqIds :
            (dbFile' # dbFile /\ DeleteConversation(id))
                => dbFile'.kind = "json" /\ Stored' = FilterOut(Stored, id)
       /\ \A k \in 1..Len(pending), reply \in Replies :
            (dbFile' # dbFile /\ CompletionReturns(k, reply))
                => LET req == pending[k]
                       i == FindIndex(req.db.conversations, req.id)
                       computed == [req.db EXCEPT !.conversations[i] =
                                       AppendAssistant(@, AssistantText(reply), now)]
                   IN  /\ dbFile'.kind = "json"
                       /\ Stored' = JSONParse(JSONStringify(computed)).conversations]_vars

\* C10's case: the file held a conversation, was damaged, and a list over
\* it has returned [].
C10_Witness ==
    /\ dbFile.kind = "corrupt"
    /\ dbFile.doc.conversations # <<>>
    /\ out = [op |-> "list", status |-> 200, body |-> <<>>]

\* C11: when saveDb fails inside create, rename, delete or the message
\* handler, the request answers an error, never its success payload, and a
\* load of the file returns what it returned before the request.
C11_WriteFailurePropagates ==
    [][/\ \A tc, tu \in Clock, how \in WriteFailures :
            (out'.op = "create" /\ CreateConversationSaveFails(tc, tu, how))
                => out'.status = 500 /\ Stored' = Stored
       /\ \A id \in ReqIds, title \in TitleInputs, how \in WriteFailures :
            (out'.op = "rename" /\ UpdateConversationSaveFails(id, title, how))
                => out'.status = 500 /\ Stored' = Stored
       /\ \A id \in ReqIds, how \in WriteFailures :
            (out'.op = "delete" /\ DeleteConversationSaveFails(id, how))
                => out'.status = 500 /\ Stored' = Stored
       /\ \A k \in 1..Len(pending), reply \in Replies, how \in WriteFailures :
            (pending' # pending /\ CompletionReturnsSaveFails(k, reply, how))
                => out'.status = 500 /\ Stored' = Stored]_vars

\* C12: two turns on the same conversation can both load the file before
\* either saves.  When a reply with text reaches a turn whose conversation
\* has, since the turn loaded it, been saved with another turn's pair, the
\* turn answers 200 and the file then holds what this turn loaded plus its own
\* pair only: the conversation is no longer than before, the other turn's
\* assistant reply is gone.
C12_LastWriteWins ==
    [][\A k \in 1..Len(pending) :
          (/\ pending' # pending
           /\ Has(Stored, pending[k].id)
           /\ Len(Found(Stored, pending[k].id).messages)
                 > Len(Found(pending[k].db.conversations, pending[k].id).messages)
           /\ CompletionReturns(k, [kind |-> "text"]))
             => LET req == pending[k]
                    loaded == Found(req.db.conversations, req.id).messages
                    after == Found(Stored', req.id).messages
                IN  /\ out'.op = "message" /\ out'.status = 200
                    /\ out'.body.conversationId = req.id
                    /\ after = Append(loaded, [role |-> "assistant", content |-> ReplyText])
                    /\ after[Len(loaded)] = [role |-> "user", content |-> req.message]
                    /\ Len(after) <= Len(Found(Stored, req.id).messages)]_vars

\* C12's case: both turns loaded the empty conversation; the first has saved
\* its pair and answered 200, the second, with another text, still awaits its
\* reply and holds only its own user message.
C12_Witness ==
    /\ out.op = "message" /\ out.status = 200
    /\ Has(Stored, out.body.conversationId)
    /\ Found(Stored, out.body.conversationId).messages
          = <<[role |-> "user", content |-> TextAtLimit],
              [role |-> "assistant", content |-> ReplyText]>>
    /\ \E k \in 1..Len(pending) :
          /\ pending[k].id = out.body.conversationId
          /\ Found(pending[k].db.conversations, pending[k].id).messages
                = <<[role |-> "user", content |-> TextOverLimit]>>

\* C13: a deleted conversation stays deleted: an id that get answers 404 for
\* is found again only after a create, in every interleaving, also when a turn
\* on that id loaded the file before the delete and succeeds after it.
C13_DeletedStaysDeleted ==
    [][\A id \in ReqIds :
          (~Has(Stored, id) /\ Has(Stored', id))
             => \E tc, tu \in Clock : CreateConversation(tc, tu)]_vars

\* C14: a turn writes the file only when it ends in success: the handler
\* leaves the file alone from the receipt of the request to the reply of the
\* completion service, a turn that answers 500 leaves it alone, a turn that
\* answers 200 leaves in it the collection it loaded with its pair appended,
\* and the file never holds what a suspended handler holds (the conversation
\* with the user message appended and no reply yet).
C14_OnlySuccessWrites ==
    [][/\ \A id \in ReqIds, message \in MessageInputs :
            ((out'.op = "message" \/ relays' # relays) /\ PostMessage(id, message))
                => dbFile' = dbFile
       /\ \A k \in 1..Len(pending), reply \in Replies :
            (pending' # pending /\ CompletionReturns(k, reply))
                => LET req == pending[k]
                       i == FindIndex(req.db.conversations, req.id)
                   IN  /\ out'.op = "message" /\ out'.status \in {200, 500}
                       /\ out'.status = 500 => dbFile' = dbFile
                       /\ out'.status = 200 =>
                             /\ dbFile'.kind = "json"
                             /\ Len(Stored') = Len(req.db.conversations)
                             /\ \A j \in 1..Len(Stored') :
                                   j # i => Stored'[j] = req.db.conversations[j]
                             /\ Len(Stored'[i].messages)
                                   = Len(req.db.conversations[i].messages) + 1
                             /\ Stored'[i].messages[Len(Stored'[i].messages)].role
                                   = "assistant"
       /\ \A k \in 1..Len(pending') : Stored' # pending'[k].db.conversations]_vars

\* C14's case: of two turns on a conversation one has succeeded and is in the
\* file, the other has just failed and is not, and none is suspended.
C14_Witness ==
    /\ out = [op |-> "message", status |-> 500]
    /\ relays = 2 /\ pending = <<>>
    /\ Len(Stored) = 1
    /\ Len(Stored[1].messages) = 2

\* C15: a message request with a text, a known id and the credential set
\* sends one request to the completion service, carrying the conversation's
\* messages as the file held them at that moment followed by the new user
\* message; a request without text, with an unknown id or without the
\* credential sends none, and the arrival of a reply sends none either.
C15_CompletionRequest ==
    [][/\ \A id \in ReqIds, message \in MessageInputs :
            ((out'.op = "message" \/ relays' # relays) /\ PostMessage(id, message))
                => IF ~Falsy(message) /\ Has(Stored, id) /\ apiKey
                   THEN /\ relays' = relays + 1
                        /\ Len(pending') = Len(pending) + 1
                        /\ SubSeq(pending', 1, Len(pending)) = pending
                        /\ pending'[Len(pending')].sent
                              = Append(Found(Stored, id).messages,
                                       [role |-> "user", content |-> message])
                   ELSE relays' = relays /\ pending' = pending
       /\ \A k \in 1..Len(pending), reply \in Replies :
            (pending' # pending /\ CompletionReturns(k, reply))
                => relays' = relays /\ Len(pending') = Len(pending) - 1]_vars

\* C15's case: the second turn of a conversation has sent the first pair and
\* its own user message, and it is the second request sent in all.
C15_Witness ==
    /\ relays = 2
    /\ \E k \in 1..Len(pending) :
          /\ Len(pending[k].sent) = 3
          /\ pending[k].sent[1].role = "user"
          /\ pending[k].sent[2] = [role |-> "assistant", content |-> ReplyText]
          /\ pending[k].sent[3] = [role |-> "user", content |-> pending[k].message]

\* C16: updatedAt never goes backwards: at every step, a conversation that is
\* in the file before and after has an updatedAt after that is not older than
\* the one before, in every interleaving of create, rename, delete and turns.
C16_UpdatedAtMonotonic ==
    [][\A id \in ReqIds :
          (Has(Stored, id) /\ Has(Stored', id))
             => NewDate(Found(Stored', id).updatedAt)
                   >= NewDate(Found(Stored, id).updatedAt)]_vars

\* C17: in the file every conversation has updatedAt >= createdAt; a
\* conversation's createdAt (under its id) never changes while it is in the
\* file; and a rename or a turn that is saved leaves its conversation with
\* updatedAt equal to the clock at that save.
C17_Timestamps ==
    [][/\ \A i \in 1..Len(Stored') :
            NewDate(Stored'[i].updatedAt) >= NewDate(Stored'[i].createdAt)
       /\ \A id \in ReqIds :
            (Has(Stored, id) /\ Has(Stored', id))
                => Found(Stored', id).createdAt = Found(Stored, id).createdAt
       /\ \A id \in ReqIds, title \in TitleInputs :
            (dbFile' # dbFile /\ UpdateConversation(id, title))
                => Found(Stored', id).updatedAt = ToISOString(now)
       /\ \A k \in 1..Len(pending), reply \in Replies :
            (dbFile' # dbFile /\ CompletionReturns(k, reply))
                => Found(Stored', pending[k].id).updatedAt = ToISOString(now)]_vars

\* The turn numbered n is suspended at `await fetch`.
Awaiting(n) == \E k \in 1..Len(pending) : pending[k].turn = n

\* C18: when the completion service answers every request, every suspended
\* turn is eventually answered.  A message request sends one response (400,
\* 404 or 500) at once or suspends without sending any; a suspended turn ends
\* only when its reply arrives, and then sends one response, 200 or 500, and
\* the other suspended turns stay as they are; there is no timeout.  While
\* turns are suspended the other handlers can still run.
C18_TurnTermination ==
    /\ \A n \in 1..MaxRequests : Awaiting(n) ~> ~Awaiting(n)
    /\ [][/\ \A id \in ReqIds, message \in MessageInputs :
               ((out'.op = "message" \/ relays' # relays) /\ PostMessage(id, message))
                   => \/ /\ pending' = pending
                         /\ out'.op = "message" /\ out'.status \in {400, 404, 500}
                      \/ /\ pending' = Append(pending, pending'[Len(pending')])
                         /\ pending'[Len(pending')].turn = relays'
                         /\ ~Awaiting(relays')
                         /\ out' = out /\ dbFile' = dbFile
          /\ \A k \in 1..Len(pending), reply \in Replies :
               (pending' # pending /\ CompletionReturns(k, reply))
                   => /\ out'.op = "message" /\ out'.status \in {200, 500}
                      /\ \A l \in 1..Len(pending') : pending'[l].turn # pending[k].turn
                      /\ Len(pending') = Len(pending) - 1
                      /\ \A j \in 1..Len(pending) :
                            j # k => \E l \in 1..Len(pending') : pending'[l] = pending[j]
          /\ \A n \in 1..MaxRequests :
               (Awaiting(n) /\ ~Awaiting(n)')
                   => \E k \in 1..Len(pending), reply \in Replies :
                         pending[k].turn = n /\ CompletionReturns(k, reply)]_vars
    /\ [](pending # <<>> =>
             /\ ENABLED ListConversations
             /\ \A id \in ReqIds :
                   /\ ENABLED GetConversation(id)
                   /\ ENABLED DeleteConversation(id)
                   /\ ENABLED UpdateConversation(id, Renamed)
                   /\ ENABLED PostMessage(id, <<>>))

\* C18's case: of two suspended turns the second has been answered, the first
\* is still waiting, and a list request has been served meanwhile.
C18_Witness ==
    /\ relays = 2
    /\ Len(pending) = 1 /\ pending[1].turn = 1
    /\ out.op = "list"

\* The ids of the conversations in a collection.
IdsOf(convs) == {convs[j].id : j \in 1..Len(convs)}

\* C19: the save of a successful turn on id leaves every other conversation,
\* and the set of ids in the file, as they were immediately before the save,
\* whatever was saved while the turn awaited the completion service.
C19_TurnSaveFrame ==
    [][\A k \in 1..Len(pending), reply \in Replies :
          (pending' # pending /\ out'.status = 200 /\ CompletionReturns(k, reply))
             => /\ IdsOf(Stored') = IdsOf(Stored)
                /\ \A id \in IdsOf(Stored) \ {pending[k].id} :
                      Has(Stored', id) /\ Found(Stored', id) = Found(Stored, id)]_vars

\* The roles of a conversation's messages, in order.
Roles(conv) == [j \in 1..Len(conv.messages) |-> conv.messages[j].role]

\* C20: starting from an empty store, every conversation in the file has an
\* even number of messages, user and assistant in turn beginning with user:
\* no user message is in the file without the reply that follows it.
C20_RoleAlternation ==
    \A i \in 1..Len(Stored) :
        /\ Len(Stored[i].messages) % 2 = 0
        /\ \A j \in 1..Len(Stored[i].messages) :
              Roles(Stored[i])[j] = IF j % 2 = 1 THEN "user" ELSE "assistant"

\* C20's case: a conversation has been through two successful turns, the
\* second of them with a reply that carried no text.
C20_Witness ==
    /\ relays = 2 /\ pending = <<>>
    /\ Len(Stored) = 1
    /\ Roles(Stored[1]) = <<"user", "assistant", "user", "assistant">>
    /\ "content" \notin DOMAIN Stored[1].messages[4]

====
